---- MODULE Spec2Model ----
(***************************************************************************)
(* Model of src/jira-xray-bulk-data-extractor.py: credential validation,   *)
(* project discovery, the keyset paginator get_issues_from_project, the    *)
(* __main__ project sweep and the row loop of generate_excel_report,       *)
(* together with the Jira search endpoint the paginator talks to.          *)
(*                                                                         *)
(* The two numeric constants of the paginator are scaled down so that the  *)
(* state space is finite and small: SAFETY_LIMIT stands for 50000          *)
(* (line 110) and max_results for 100 (line 100).  No formula below uses   *)
(* the scaled values other than through these two names.                   *)
(***************************************************************************)
EXTENDS Integers, Sequences, FiniteSets, TLC

\* ---------------------------------------------------------------- bounds
SAFETY_LIMIT == 4
max_results == 2
MaxId == 3
MaxCreates == 1
MaxRequests == SAFETY_LIMIT + 2

\* `last_seen_id = None` (line 112); issue ids start at 1.
None == 0

ProjectKeys == {"A", "B"}

\* the catalogs the project endpoint may list (line 70): none, one project,
\* two projects, the same key twice
Catalogs == {<<>>, <<"A">>, <<"A", "B">>, <<"A", "A">>}

\* what an id of the Jira instance may be: unused, or an issue of a project
\* and type
Slots == {<<"absent", "absent">>, <<"A", "Bug">>, <<"A", "Story">>, <<"B", "Bug">>}

\* issuetype in(...) of base_jql, line 107
Whitelist == {"Test", "Test Execution", "Test plan", "Test set", "Precondition", "Bug"}

\* the issue types the modelled Jira instance holds: one whitelisted, one not
IssueTypes == {"Bug", "Story"}

\* values of an environment variable as os.getenv sees it (lines 37-38)
EnvValues == {"unset", "", "set"}

VARIABLES
    JIRA_EMAIL, JIRA_API_TOKEN, \* lines 37-38
    db,                \* the issues held by the Jira instance
    catalog,           \* the project keys the Jira instance lists, in order
    faithful,          \* the Jira instance evaluates every query as written
    nextId,            \* the id Jira gives to the next created issue
    creates,           \* number of issues created by other actors so far
    pc,                \* position of the script
    projects_list,     \* line 297
    idx,               \* position of the for loop of line 306 (1-based)
    master_list,       \* line 294
    project_issues,    \* line 103
    last_seen_id,      \* line 112
    issues,            \* line 309: the list the paginator returned
    \* ---- history of the current paginator call
    requests,          \* search requests issued in this call
    pages,             \* the pages received in this call, in order
    outcome,           \* how this call ended
    constraints,       \* the `id <` constraint carried by each request
    honest,            \* the server honoured filter, order and constraint
    snapshot,          \* matching issues when the first page was requested
    createdInCall,     \* an issue was created during this call
    \* ---- history of the run
    calls,             \* one record per finished paginator call
    catalogRequests,   \* requests to the project endpoint
    searchRequests,    \* requests to the search endpoint, all projects
    reports,           \* the lists generate_excel_report was called with
    catalogFailed,     \* the catalog request failed
    \* ---- the report
    shape,             \* a deviation of the `fields` object of some issues
    shaped,            \* the ids of the issues that carry the deviation
    sink               \* how often rows were handed to the report sink (line 278)

vars == <<JIRA_EMAIL, JIRA_API_TOKEN, db, catalog, faithful, nextId, creates, pc, projects_list,
          idx, master_list, project_issues, last_seen_id, issues, requests,
          pages, outcome, constraints, honest, snapshot, createdInCall,
          calls, catalogRequests, searchRequests, reports, catalogFailed,
          shape, shaped, sink>>

progVars == <<JIRA_EMAIL, JIRA_API_TOKEN, pc, projects_list, idx, master_list,
              project_issues, last_seen_id, issues>>
callHist == <<requests, pages, outcome, constraints, honest, snapshot,
              createdInCall>>
runHist == <<calls, catalogRequests, searchRequests, reports>>
server == <<db, catalog, faithful, nextId, creates, shape, shaped>>

\* ---------------------------------------------------------------- helpers
Min(a, b) == IF a < b THEN a ELSE b

Range(s) == {s[k] : k \in 1..Len(s)}

Take(s, k) == SubSeq(s, 1, k)

\* a test for None only, which lets the empty string through
TruthyNotNone(v) == v # "unset"

\* Python truthiness of an environment value: None and "" are falsy
Truthy(v) == v = "set"

\* the raw issue Jira returns for a stored issue
Issue(n, p, t) == [id |-> n, key |-> n, project |-> p, issuetype |-> t]

IdsOf(s) == {s[k].id : k \in 1..Len(s)}

\* ------------------------------------------------------- the Jira server
\* ORDER BY id DESC / ASC over a set of issues
RECURSIVE OrderById(_, _)
OrderById(S, order) ==
    IF S = {} THEN <<>>
    ELSE LET m == IF order = "DESC"
                  THEN CHOOSE x \in S : \A y \in S : y.id <= x.id
                  ELSE CHOOSE x \in S : \A y \in S : y.id >= x.id
         IN  <<m>> \o OrderById(S \ {m}, order)

\* the issues a JQL query selects
Matching(q, issueSet) ==
    {x \in issueSet : /\ x.project = q.project
                      /\ x.issuetype \in q.types
                      /\ (q.below = None \/ x.id < q.below)}

\* the pages a server that evaluates query q faithfully may answer: the
\* first k issues in the requested order, k at most maxResults; a page is
\* empty only when nothing matches
PagesFor(q, issueSet) ==
    LET M == Matching(q, issueSet)
        top == Min(q.maxResults, Cardinality(M))
    IN  {Take(OrderById(M, q.order), k) : k \in (IF top = 0 THEN 0 ELSE 1)..top}

\* the queries a server may evaluate instead of q when it ignores the
\* `id <` constraint, the issue type filter or the requested order
Variants(q) ==
    {[q EXCEPT !.below = b, !.types = t, !.order = o] :
        b \in {q.below, None},
        t \in {q.types, IssueTypes},
        o \in {q.order, "ASC"}}

\* every page a server that may ignore parts of q can answer
AnyPages(q, issueSet) ==
    {<<>>} \cup UNION {PagesFor(v, issueSet) : v \in Variants(q)}

\* the pages the Jira instance may answer to q
Answers(q, issueSet) ==
    IF faithful THEN PagesFor(q, issueSet) ELSE AnyPages(q, issueSet)

\* ------------------------------------------------------------ the script
\* the query without the issue type filter
current_jql_unfiltered(project_key, cursor) ==
    [project |-> project_key,
     types |-> IssueTypes,
     below |-> cursor,
     order |-> "DESC",
     maxResults |-> max_results]

\* the query ordered ascending instead of descending
current_jql_asc(project_key, cursor) ==
    [project |-> project_key,
     types |-> Whitelist,
     below |-> cursor,
     order |-> "ASC",
     maxResults |-> max_results]

\* lines 107, 124-127: the query of one loop iteration
current_jql(project_key, cursor) ==
    [project |-> project_key,
     types |-> Whitelist,
     below |-> cursor,
     order |-> "DESC",
     maxResults |-> max_results]

\* the cursor taken from the first issue of the page instead of the last
NextCursorFirst(page) == page[1].id

\* line 153: last_seen_id = issues[-1]['id']
NextCursor(page) == page[Len(page)].id

\* line 306: the project key the for loop is at
proj_key == projects_list[idx]

\* ------------------------------------------------ the `fields` of an issue
\* a key the JSON object does not hold, and the JSON null (None in Python)
Absent == "<absent>"

Null == "<null>"

\* a sub-object of a link that holds no 'key'
NoKey == "<nokey>"

\* the values a field of `fields` may have: no such key, null, an object
\* with the two keys the report reads (a, b), a list, a string
NoField == [is |-> "absent", a |-> Absent, b |-> Absent, items |-> <<>>]

NullField == [is |-> "null", a |-> Absent, b |-> Absent, items |-> <<>>]

Obj(a, b) == [is |-> "obj", a |-> a, b |-> b, items |-> <<>>]

List(items) == [is |-> "list", a |-> Absent, b |-> Absent, items |-> items]

Str(text) == [is |-> "str", a |-> text, b |-> Absent, items |-> <<>>]

Item(a, b) == [a |-> a, b |-> b]

ValidCreated == "2025-11-22T22:16:22.000-0300"

ValidUpdated == "2025-11-23T08:01:02.000-0300"

\* the fields Jira returns for an issue when nothing is missing
WellFormed(issue) ==
    [project |-> Obj(issue.project, Absent),
     issuetype |-> Obj(issue.issuetype, "10004"),
     status |-> Obj("Open", Absent),
     reporter |-> Obj("Ann", "acc-1"),
     assignee |-> Obj("Bob", "acc-2"),
     priority |-> Obj("High", Absent),
     resolution |-> Obj("Done", Absent),
     components |-> List(<<Item("UI", Absent)>>),
     fixVersions |-> List(<<Item("1.0", Absent)>>),
     labels |-> List(<<Item("qa", Absent)>>),
     issuelinks |-> List(<<Item("A-7", Absent), Item(Absent, "A-9")>>),
     created |-> Str(ValidCreated),
     updated |-> Str(ValidUpdated),
     summary |-> Str("Login fails"),
     timeoriginalestimate |-> Str("3600")]

\* a deviation that changes nothing
NoDeviation == [field |-> "summary", value |-> Str("Login fails")]

\* a user object: absent, null, or an object whose displayName (a) and
\* accountId (b) are each absent, null, empty or set
Persons(name, account) ==
    {NoField, NullField}
    \cup {Obj(a, b) : a \in {Absent, Null, "", name}, b \in {Absent, Null, "", account}}

Dev(field, values) == {[field |-> field, value |-> v] : v \in values}

\* one field of an issue absent, null, empty or malformed
Deviations ==
    {NoDeviation}
    \cup Dev("project", {NoField, NullField, Obj(Absent, Absent)})
    \cup Dev("issuetype", {NoField, NullField, Obj(Absent, "10004"), Obj("", "10004"),
                           Obj(Absent, Absent)})
    \cup Dev("status", {NoField, NullField, Obj(Absent, Absent)})
    \cup Dev("reporter", Persons("Ann", "acc-1"))
    \cup Dev("assignee", Persons("Bob", "acc-2"))
    \cup Dev("priority", {NoField, NullField, Obj(Absent, Absent)})
    \cup Dev("resolution", {NoField, NullField, Obj(Absent, Absent)})
    \cup Dev("components", {NoField, NullField, List(<<>>),
                            List(<<Item("UI", Absent), Item("API", Absent)>>),
                            List(<<Item(Absent, "10000")>>)})
    \cup Dev("fixVersions", {NoField, NullField, List(<<>>),
                             List(<<Item(Absent, "10001")>>)})
    \cup Dev("labels", {NoField, NullField, List(<<>>),
                        List(<<Item("qa", Absent), Item("smoke", Absent)>>)})
    \cup Dev("issuelinks", {NoField, NullField, List(<<>>),
                            List(<<Item(Absent, Absent)>>),
                            List(<<Item(NoKey, Absent)>>),
                            List(<<Item(Absent, NoKey)>>),
                            List(<<Item(Absent, "A-9"), Item("A-7", Absent)>>)})
    \cup Dev("created", {NoField, NullField, Str(""), Str("not a date")})
    \cup Dev("updated", {NoField, NullField})
    \cup Dev("summary", {NoField, NullField})
    \cup Dev("timeoriginalestimate", {NoField, NullField})

\* the `fields` object of an issue as the search endpoint returns it
Raw(issue) ==
    IF issue.id \in shaped
    THEN [WellFormed(issue) EXCEPT ![shape.field] = shape.value]
    ELSE WellFormed(issue)

\* the contents a Jira instance may have: each id up to MaxId is unused or
\* is an issue of some project and type
Databases ==
    {{Issue(n, f[n][1], f[n][2]) : n \in {m \in 1..MaxId : f[m][1] # "absent"}} :
        f \in [1..MaxId -> Slots]}

\* the state of the script before line 34, all histories empty
Fresh ==
    /\ nextId = MaxId + 1
    /\ creates = 0
    /\ pc = "validate"
    /\ projects_list = <<>>
    /\ idx = 0
    /\ master_list = <<>>
    /\ project_issues = <<>>
    /\ last_seen_id = None
    /\ issues = <<>>
    /\ requests = 0
    /\ pages = <<>>
    /\ outcome = "none"
    /\ constraints = <<>>
    /\ honest = TRUE
    /\ snapshot = {}
    /\ createdInCall = FALSE
    /\ calls = <<>>
    /\ catalogRequests = 0
    /\ searchRequests = 0
    /\ reports = <<>>
    /\ catalogFailed = FALSE
    /\ sink = 0

Init ==
    /\ JIRA_EMAIL \in EnvValues
    /\ JIRA_API_TOKEN \in EnvValues
    /\ db \in Databases
    /\ catalog \in Catalogs
    /\ faithful = TRUE
    /\ shape = NoDeviation
    /\ shaped = {}
    /\ Fresh

\* lines 43-45: credential validation at import time
Validate ==
    /\ pc = "validate"
    /\ pc' = IF Truthy(JIRA_EMAIL) /\ Truthy(JIRA_API_TOKEN) THEN "discover" ELSE "exit_fail"
    /\ UNCHANGED <<JIRA_EMAIL, JIRA_API_TOKEN, projects_list, idx, master_list,
                   project_issues, last_seen_id, issues>>
    /\ UNCHANGED <<callHist, runHist, server>>
    /\ UNCHANGED <<catalogFailed, sink>>

\* lines 297-301: an empty project list ends the run, otherwise the sweep
\* starts at the first key
AfterDiscovery(keys) ==
    /\ projects_list' = keys
    /\ pc' = IF keys = <<>> THEN "exit_nodata" ELSE "sweep"
    /\ idx' = IF keys = <<>> THEN idx ELSE 1

\* lines 51-75 and 297-301: the catalog request answers with the list of
\* project keys
Discover ==
    /\ pc = "discover"
    /\ AfterDiscovery(catalog)
    /\ catalogRequests' = catalogRequests + 1
    /\ catalogFailed' = FALSE
    /\ UNCHANGED sink
    /\ UNCHANGED <<JIRA_EMAIL, JIRA_API_TOKEN, master_list, project_issues,
                   last_seen_id, issues>>
    /\ UNCHANGED <<callHist, calls, searchRequests, reports, server>>

\* lines 64-70 raise: connection failure or timeout, rejected credentials,
\* another HTTP error status, a body that is not JSON, a JSON body that is
\* not a list of objects with a 'key'
CatalogFailureKinds == {"transport", "timeout", "auth", "http_error", "bad_body", "malformed"}

\* an except clause that catches the failures of the requests library only
CatalogCaughtRequestsOnly(kind) == kind \in {"transport", "timeout", "auth", "http_error"}

\* line 78: `except Exception` catches every failure kind
CatalogCaught(kind) == TRUE

\* lines 59-80 and 297-301: the catalog request fails and the function
\* returns []
DiscoverFailed ==
    /\ pc = "discover"
    /\ \E kind \in CatalogFailureKinds :
          IF CatalogCaught(kind)
          THEN AfterDiscovery(<<>>)
          ELSE /\ pc' = "crashed"
               /\ UNCHANGED <<projects_list, idx>>
    /\ catalogRequests' = catalogRequests + 1
    /\ catalogFailed' = TRUE
    /\ UNCHANGED sink
    /\ UNCHANGED <<JIRA_EMAIL, JIRA_API_TOKEN, master_list, project_issues,
                   last_seen_id, issues>>
    /\ UNCHANGED <<callHist, calls, searchRequests, reports, server>>

\* a cursor that outlives the call: the value left by the previous project
InitialCursorStale == last_seen_id

\* line 112: every call starts without a cursor
InitialCursor == None

\* line 309 with lines 98-116: the for loop calls the paginator
BeginCall ==
    /\ pc = "sweep"
    /\ pc' = "paginate"
    /\ project_issues' = <<>>
    /\ last_seen_id' = InitialCursor
    /\ requests' = 0
    /\ pages' = <<>>
    /\ outcome' = "none"
    /\ constraints' = <<>>
    /\ honest' = TRUE
    /\ snapshot' = {}
    /\ createdInCall' = FALSE
    /\ UNCHANGED <<JIRA_EMAIL, JIRA_API_TOKEN, projects_list, idx, master_list, issues>>
    /\ UNCHANGED <<runHist, server>>
    /\ UNCHANGED <<catalogFailed, sink>>

\* the safety check comparing against one page more than the limit
CapOnePageLate(acc) == Len(acc) >= SAFETY_LIMIT + max_results

\* no safety check at all
CapNever(acc) == FALSE

\* the safety check with `>` instead of `>=`
CapAbove(acc) == Len(acc) > SAFETY_LIMIT

\* line 119: the safety check that precedes every request
CapReached(acc) == Len(acc) >= SAFETY_LIMIT

\* `break` instead of `return []` on 401/403
OnDeniedKeep(acc) == acc

\* line 143: `return []` on 401/403
OnDenied(acc) == <<>>

\* the accumulated issues dropped on an error
OnErrorDrop(acc) == <<>>

\* lines 155-157 and 159: `break`, then `return project_issues`
OnError(acc) == acc

\* an except clause that catches transport failures only
CaughtTransportOnly(kind) == kind \in {"transport", "timeout"}

\* line 155: `except Exception` catches every failure kind
Caught(kind) == TRUE

\* `continue` instead of `break` on an empty page
PcAfterEmptyPageContinue == "paginate"

\* lines 149-150: `if not issues: break`
PcAfterEmptyPage == "returned"

\* the list replaced instead of extended
Overwrite(list, more) == more

\* line 152: project_issues.extend(issues); line 313: master_list.extend(issues)
Extend(list, more) == list \o more

\* the paginator returns `result`; control is back at line 309
Return(result, how) ==
    /\ issues' = result
    /\ outcome' = how
    /\ pc' = "returned"

\* lines 129-138: one search request leaves the script
Send(q) ==
    /\ requests < MaxRequests
    /\ requests' = requests + 1
    /\ searchRequests' = searchRequests + 1
    /\ constraints' = Append(constraints, q.below)
    /\ snapshot' = IF requests = 0
                   THEN {x.id : x \in Matching(current_jql(proj_key, None), db)}
                   ELSE snapshot

\* lines 119-121: the safety limit ends the pagination
SafetyBreak ==
    /\ pc = "paginate"
    /\ CapReached(project_issues)
    /\ Return(project_issues, "cap")
    /\ UNCHANGED <<JIRA_EMAIL, JIRA_API_TOKEN, projects_list, idx, master_list,
                   project_issues, last_seen_id>>
    /\ UNCHANGED <<requests, pages, constraints, honest, snapshot, createdInCall>>
    /\ UNCHANGED <<runHist, server>>
    /\ UNCHANGED <<catalogFailed, sink>>

\* lines 138-143: the response has status 401 or 403
RequestDenied ==
    /\ pc = "paginate"
    /\ ~CapReached(project_issues)
    /\ Send(current_jql(proj_key, last_seen_id))
    /\ \E status \in {401, 403} : Return(OnDenied(project_issues), "denied")
    /\ UNCHANGED <<JIRA_EMAIL, JIRA_API_TOKEN, projects_list, idx, master_list,
                   project_issues, last_seen_id>>
    /\ UNCHANGED <<pages, honest, createdInCall>>
    /\ UNCHANGED <<calls, catalogRequests, reports, server>>
    /\ UNCHANGED <<catalogFailed, sink>>

\* lines 138, 145, 146 raise: connection failure or timeout, an HTTP error
\* status other than 401/403, a body that is not JSON
FailureKinds == {"transport", "timeout", "http_error", "bad_body"}

RequestFailed ==
    /\ pc = "paginate"
    /\ ~CapReached(project_issues)
    /\ Send(current_jql(proj_key, last_seen_id))
    /\ \E kind \in FailureKinds :
          IF Caught(kind)
          THEN Return(OnError(project_issues), "error")
          ELSE /\ pc' = "crashed"
               /\ outcome' = "raised"
               /\ UNCHANGED issues
    /\ UNCHANGED <<JIRA_EMAIL, JIRA_API_TOKEN, projects_list, idx, master_list,
                   project_issues, last_seen_id>>
    /\ UNCHANGED <<pages, honest, createdInCall>>
    /\ UNCHANGED <<calls, catalogRequests, reports, server>>
    /\ UNCHANGED <<catalogFailed, sink>>

\* lines 146-150: the response is a page without issues
RequestEmptyPage ==
    /\ pc = "paginate"
    /\ ~CapReached(project_issues)
    /\ LET q == current_jql(proj_key, last_seen_id)
       IN  /\ <<>> \in Answers(q, db)
           /\ Send(q)
           /\ honest' = (honest /\ <<>> \in PagesFor(q, db))
    /\ pages' = Append(pages, <<>>)
    /\ IF PcAfterEmptyPage = "returned"
       THEN Return(project_issues, "exhausted")
       ELSE /\ pc' = PcAfterEmptyPage
            /\ UNCHANGED <<issues, outcome>>
    /\ UNCHANGED <<JIRA_EMAIL, JIRA_API_TOKEN, projects_list, idx, master_list,
                   project_issues, last_seen_id>>
    /\ UNCHANGED <<createdInCall>>
    /\ UNCHANGED <<calls, catalogRequests, reports, server>>
    /\ UNCHANGED <<catalogFailed, sink>>

\* lines 146-153: the response is a page of issues; it is appended and the
\* cursor moves to the id of its last issue
RequestPage ==
    /\ pc = "paginate"
    /\ ~CapReached(project_issues)
    /\ LET q == current_jql(proj_key, last_seen_id)
       IN  /\ Send(q)
           /\ \E page \in Answers(q, db) \ {<<>>} :
                 /\ honest' = (honest /\ page \in PagesFor(q, db))
                 /\ pages' = Append(pages, page)
                 /\ project_issues' = Extend(project_issues, page)
                 /\ last_seen_id' = NextCursor(page)
    /\ UNCHANGED <<JIRA_EMAIL, JIRA_API_TOKEN, pc, projects_list, idx, master_list, issues>>
    /\ UNCHANGED <<outcome, createdInCall>>
    /\ UNCHANGED <<calls, catalogRequests, reports, server>>
    /\ UNCHANGED <<catalogFailed, sink>>

\* lines 152-157: the last issue of the page has no 'id': the page is
\* appended, then issues[-1]['id'] raises KeyError and the loop ends
WithoutLastId(page) ==
    [k \in 1..Len(page) |-> IF k = Len(page) THEN [page[k] EXCEPT !.id = None] ELSE page[k]]

\* the cursor read before the page is appended: the page is lost
OnCursorFailureDrop(acc, page) == acc

\* lines 152-153: the page is already appended when issues[-1]['id'] raises
OnCursorFailure(acc, page) == acc \o page

RequestPageNoId ==
    /\ pc = "paginate"
    /\ ~CapReached(project_issues)
    /\ LET q == current_jql(proj_key, last_seen_id)
       IN  /\ Send(q)
           /\ \E page \in Answers(q, db) \ {<<>>} :
                 /\ pages' = Append(pages, WithoutLastId(page))
                 /\ project_issues' = OnCursorFailure(project_issues, WithoutLastId(page))
                 /\ Return(project_issues', "noid")
    /\ honest' = FALSE
    /\ UNCHANGED <<JIRA_EMAIL, JIRA_API_TOKEN, projects_list, idx, master_list, last_seen_id>>
    /\ UNCHANGED <<createdInCall>>
    /\ UNCHANGED <<calls, catalogRequests, reports, server>>
    /\ UNCHANGED <<catalogFailed, sink>>

\* lines 311-315: what the sweep prints about a project
Narrative(result) ==
    IF result # <<>> THEN "records retrieved" ELSE "Empty or Access Denied"

\* lines 309-315 and the loop advance of line 306: a non-empty result is
\* appended to master_list; after the last project the sweep is over
Collect ==
    /\ pc = "returned"
    /\ master_list' = IF issues # <<>> THEN Extend(master_list, issues) ELSE master_list
    /\ calls' = Append(calls, [key |-> proj_key, returned |-> issues,
                               requests |-> requests, outcome |-> outcome,
                               honest |-> honest, before |-> master_list,
                               narrative |-> Narrative(issues)])
    /\ IF idx < Len(projects_list)
       THEN /\ idx' = idx + 1
            /\ pc' = "sweep"
       ELSE /\ idx' = idx
            /\ pc' = "decide"
    /\ UNCHANGED <<JIRA_EMAIL, JIRA_API_TOKEN, projects_list, project_issues,
                   last_seen_id, issues>>
    /\ UNCHANGED <<callHist, catalogRequests, searchRequests, reports, server>>
    /\ UNCHANGED <<catalogFailed, sink>>

\* --------------------------------------------------------- the normalizer
\* fields.get(key, default): the default only when the key is absent
Get(value, default) == IF value.is = "absent" THEN default ELSE value

\* Python truthiness of a JSON value
ValueTruthy(value) ==
    CASE value.is = "obj" -> value.a # Absent \/ value.b # Absent
      [] value.is = "list" -> value.items # <<>>
      [] value.is = "str" -> value.a # ""
      [] OTHER -> FALSE

\* `fields.get(key) or {}`, lines 188-191
OrEmptyDict(value) == IF ValueTruthy(value) THEN value ELSE Obj(Absent, Absent)

\* info.get(...) raises AttributeError unless info is a dict
NotDict(info) == info.is # "obj"

\* info.get(key, default) on a dict
SubGet(info, k, default) == IF info[k] = Absent THEN default ELSE info[k]

\* an `or` that falls through on None only
PyOrNoneOnly(x, y) == IF x = Null THEN y ELSE x

\* Python `x or y` on strings and None, lines 212-218 and 256-258
PyOr(x, y) == IF x \in {Null, ""} THEN y ELSE x

\* ", ".join(names)
RECURSIVE Join(_)
Join(names) ==
    IF names = <<>> THEN ""
    ELSE IF Len(names) = 1 THEN names[1]
    ELSE names[1] \o ", " \o Join(Tail(names))

\* [c['name'] for c in value], lines 194-195
Names(value) == [k \in 1..Len(value.items) |-> value.items[k].a]

\* lines 194-195: iterating null raises TypeError, c['name'] raises KeyError
\* on an element without 'name', join raises TypeError on None
NamesRaise(value) ==
    \/ value.is # "list"
    \/ \E k \in 1..Len(value.items) : value.items[k].a \in {Absent, Null}

\* the strings of fields.get('labels', []), line 196
Strings(value) == [k \in 1..Len(value.items) |-> value.items[k].a]

\* line 196: joining null or a list that holds None raises TypeError
StringsRaise(value) ==
    \/ value.is # "list"
    \/ \E k \in 1..Len(value.items) : value.items[k].a = Null

\* lines 199-200: the outward keys, then the inward keys
LinkedKeys(value) ==
    LET out == SelectSeq(value.items, LAMBDA l : l.a # Absent)
        in == SelectSeq(value.items, LAMBDA l : l.b # Absent)
    IN  [k \in 1..Len(out) |-> out[k].a] \o [k \in 1..Len(in) |-> in[k].b]

\* lines 199-200: iterating null raises TypeError, link[side]['key'] raises
\* when the sub-object is null or holds no 'key'
LinkedKeysRaise(value) ==
    \/ value.is # "list"
    \/ \E k \in 1..Len(value.items) :
          value.items[k].a \in {Null, NoKey} \/ value.items[k].b \in {Null, NoKey}

\* created_datetime_str.split('.')[0], line 230
BeforeDot(text) ==
    CASE text = ValidCreated -> "2025-11-22T22:16:22"
      [] OTHER -> text

\* .split('T')[0], line 252
BeforeT(text) ==
    CASE text = ValidUpdated -> "2025-11-23"
      [] text = ValidCreated -> "2025-11-22"
      [] OTHER -> text

NoDate == [date |-> "N/A", month |-> "N/A", year |-> "N/A"]

\* datetime.fromisoformat followed by strftime, .month and .year (lines
\* 230-234); a ValueError leaves the three cells at 'N/A' (lines 235-237).
\* Month and year are written as numerals.
DateCells(text) ==
    CASE text = "2025-11-22T22:16:22" ->
             [date |-> "2025-11-22", month |-> "11", year |-> "2025"]
      [] OTHER -> NoDate

\* lines 221-237
Creation(value) ==
    IF ~ValueTruthy(value) THEN NoDate ELSE DateCells(BeforeDot(value.a))

\* a plain cell: the string, or None for null
Cell(value) == IF value.is = "null" THEN Null ELSE value.a

\* some statement of lines 186-272 raises for these fields; only the
\* ValueError of the date is caught (line 235)
Raises(fields) ==
    \/ NotDict(Get(fields.project, Obj(Absent, Absent)))            \* line 243
    \/ NotDict(Get(fields.issuetype, Obj(Absent, Absent)))          \* line 216
    \/ NotDict(OrEmptyDict(fields.reporter))                        \* line 207
    \/ NotDict(OrEmptyDict(fields.assignee))                        \* line 209
    \/ NotDict(OrEmptyDict(fields.priority))                        \* line 262
    \/ NotDict(OrEmptyDict(fields.resolution))                      \* line 263
    \/ NotDict(Get(fields.status, Obj(Absent, Absent)))             \* line 261
    \/ NamesRaise(Get(fields.components, List(<<>>)))               \* line 194
    \/ NamesRaise(Get(fields.fixVersions, List(<<>>)))              \* line 195
    \/ StringsRaise(Get(fields.labels, List(<<>>)))                 \* line 196
    \/ LinkedKeysRaise(Get(fields.issuelinks, List(<<>>)))          \* lines 199-200
    \/ LET created == Get(fields.created, Str(""))                  \* line 230
       IN  ValueTruthy(created) /\ created.is # "str"
    \/ Get(fields.updated, Str("N/A")).is # "str"                   \* line 252

\* lines 182-272: the row of an issue for which no statement raises
RowOf(issue, fields) ==
    LET project_info == Get(fields.project, Obj(Absent, Absent))
        issuetype_info == Get(fields.issuetype, Obj(Absent, Absent))
        reporter_info == OrEmptyDict(fields.reporter)
        assignee_info == OrEmptyDict(fields.assignee)
        priority_info == OrEmptyDict(fields.priority)
        resolution_info == OrEmptyDict(fields.resolution)
        reporter_name == SubGet(reporter_info, "a", Null)
        reporter_id == SubGet(reporter_info, "b", Null)
        assignee_name == SubGet(assignee_info, "a", Null)
        assignee_id == SubGet(assignee_info, "b", Null)
        created == Creation(Get(fields.created, Str("")))
        time_estimate == Get(fields.timeoriginalestimate, NullField)
    IN  [Key |-> issue.key,
         ProjectKey |-> SubGet(project_info, "a", "N/A"),
         IssueType |-> PyOr(PyOr(SubGet(issuetype_info, "a", Null),
                                 SubGet(issuetype_info, "b", Null)),
                            "N/A (Corrupt)"),
         Summary |-> Cell(Get(fields.summary, Str("No Summary"))),
         CreationDate |-> created.date,
         CreationMonth |-> created.month,
         CreationYear |-> created.year,
         Updated |-> BeforeT(Get(fields.updated, Str("N/A")).a),
         ReporterName |-> PyOr(PyOr(reporter_name, reporter_id), "Unknown"),
         ReporterAccountID |-> PyOr(reporter_id, "N/A"),
         AssigneeName |-> PyOr(PyOr(assignee_name, assignee_id), "Unassigned"),
         AssigneeAccountID |-> PyOr(assignee_id, "N/A"),
         Status |-> SubGet(Get(fields.status, Obj(Absent, Absent)), "a", "N/A"),
         Priority |-> SubGet(priority_info, "a", "Normal"),
         Resolution |-> SubGet(resolution_info, "a", "Unresolved"),
         Components |-> Join(Names(Get(fields.components, List(<<>>)))),
         Labels |-> Join(Strings(Get(fields.labels, List(<<>>)))),
         FixVersions |-> Join(Names(Get(fields.fixVersions, List(<<>>)))),
         LinkedIssues |-> Join(LinkedKeys(Get(fields.issuelinks, List(<<>>)))),
         OriginalEstimate |-> IF time_estimate.is = "null" THEN "0" ELSE time_estimate.a,
         Link |-> <<"browse", issue.key>>]

Normalize(issue) == RowOf(issue, Raw(issue))

\* line 181: the row loop gets through every issue of the list
RowsBuilt(list) == \A k \in 1..Len(list) : ~Raises(Raw(list[k]))

\* lines 180-275: the rows of the issues, in order
Rows(list) == [k \in 1..Len(list) |-> Normalize(list[k])]

\* lines 318-323 with generate_excel_report (lines 177-283): a non-empty
\* master_list is normalized row by row and its rows are handed to the
\* sink; nothing catches an exception of the row loop, which ends the script
Decide ==
    /\ pc = "decide"
    /\ IF master_list # <<>>
       THEN /\ reports' = Append(reports, master_list)
            /\ IF RowsBuilt(master_list)
               THEN /\ sink' = sink + 1
                    /\ pc' = "done"
               ELSE /\ sink' = sink
                    /\ pc' = "report_raised"
       ELSE /\ reports' = reports
            /\ sink' = sink
            /\ pc' = "nodata"
    /\ UNCHANGED <<JIRA_EMAIL, JIRA_API_TOKEN, projects_list, idx, master_list,
                   project_issues, last_seen_id, issues>>
    /\ UNCHANGED <<callHist, calls, catalogRequests, searchRequests, server>>
    /\ UNCHANGED catalogFailed

\* another actor creates an issue of a whitelisted type while a project is
\* being paginated; Jira gives it the next, larger id
Create ==
    /\ pc = "paginate"
    /\ creates < MaxCreates
    /\ \E p \in ProjectKeys : db' = db \cup {Issue(nextId, p, "Bug")}
    /\ UNCHANGED <<catalog, faithful, shape, shaped>>
    /\ nextId' = nextId + 1
    /\ creates' = creates + 1
    /\ createdInCall' = TRUE
    /\ UNCHANGED progVars
    /\ UNCHANGED <<requests, pages, outcome, constraints, honest, snapshot>>
    /\ UNCHANGED runHist
    /\ UNCHANGED <<catalogFailed, sink>>

\* the steps of the script
Step ==
    \/ Validate
    \/ Discover
    \/ DiscoverFailed
    \/ BeginCall
    \/ SafetyBreak
    \/ RequestDenied
    \/ RequestFailed
    \/ RequestEmptyPage
    \/ RequestPage
    \/ RequestPageNoId
    \/ Collect
    \/ Decide

\* the script against a server that evaluates every query faithfully, while
\* other actors create issues
Next == Step \/ Create

Spec == Init /\ [][Next]_vars

\* the script against a server that may ignore parts of the query: one
\* project, valid credentials, nobody else writing
InitRogue ==
    /\ JIRA_EMAIL = "set"
    /\ JIRA_API_TOKEN = "set"
    /\ db \in Databases
    /\ catalog \in {c \in Catalogs : Len(c) <= 1}
    /\ faithful = FALSE
    /\ shape = NoDeviation
    /\ shaped = {}
    /\ Fresh

NextRogue == Step

RogueSpec == InitRogue /\ [][NextRogue]_vars

\* one pass of the `while True` loop of the paginator, lines 118-157
PaginatorStep ==
    \/ SafetyBreak
    \/ RequestDenied
    \/ RequestFailed
    \/ RequestEmptyPage
    \/ RequestPage
    \/ RequestPageNoId

\* the script is sequential and every search request has a timeout (line
\* 138): a pass of the loop that is possible is eventually taken
RogueLive == RogueSpec /\ WF_vars(PaginatorStep)

\* the script against a faithful server whose issues of project A may carry
\* a deviating field: valid credentials, nobody else writing, a project of
\* no issue, of one, of a page and a half, or of as many as the safety limit
ReportDatabases ==
    {{Issue(n, "A", "Bug") : n \in 1..k} : k \in {0, 1, MaxId, SAFETY_LIMIT}}

InitReport ==
    /\ JIRA_EMAIL = "set"
    /\ JIRA_API_TOKEN = "set"
    /\ db \in ReportDatabases
    /\ catalog \in {<<"A">>, <<"A", "B">>}
    /\ faithful = TRUE
    /\ shape \in Deviations
    /\ shaped \in {{1}, 1..MaxId}
    /\ Fresh

NextReport == Step

ReportSpec == InitReport /\ [][NextReport]_vars

\* ------------------------------------------------------------ properties
RECURSIVE Flatten(_)
Flatten(ss) == IF ss = <<>> THEN <<>> ELSE Head(ss) \o Flatten(Tail(ss))

Reverse(s) == [k \in 1..Len(s) |-> s[Len(s) + 1 - k]]

StrictlyDecreasing(s) == \A k \in 1..(Len(s) - 1) : s[k].id > s[k + 1].id

SortedAscending(s) == \A j, k \in 1..Len(s) : j < k => s[j].id <= s[k].id

NoIdTwice(s) == \A j, k \in 1..Len(s) : j # k => s[j].id # s[k].id

\* the whitelisted issues of project p now in the Jira instance
ProjectMatches(p) == {x \in db : x.project = p /\ x.issuetype \in Whitelist}

\* the paginator call ended without any error
EndedCleanly == outcome \in {"exhausted", "cap"}

\* C1: when a project has N <= SAFETY_LIMIT matching issues, nothing is
\* created during the call, the server answers without error and honours
\* filter, order and cursor, the paginator returns exactly those N issues,
\* ids strictly decreasing and distinct, and the reversed list is ascending.
C1_ExactlyNDescending ==
    (/\ pc = "returned"
     /\ EndedCleanly
     /\ honest
     /\ ~createdInCall
     /\ Cardinality(ProjectMatches(proj_key)) <= SAFETY_LIMIT)
    => (/\ Len(issues) = Cardinality(ProjectMatches(proj_key))
        /\ Range(issues) = ProjectMatches(proj_key)
        /\ StrictlyDecreasing(issues)
        /\ NoIdTwice(issues)
        /\ SortedAscending(Reverse(issues)))

C1_Witness ==
    /\ pc = "returned"
    /\ outcome = "exhausted"
    /\ honest
    /\ ~createdInCall
    /\ Len(pages) = 3
    /\ Len(issues) = MaxId

\* C2: when a page request is answered with 401 or 403 the paginator
\* returns the empty list, whatever it had accumulated, and that request
\* was the last of the call.
C2_DeniedReturnsEmpty ==
    outcome = "denied"
    => (/\ pc # "paginate"
        /\ issues = <<>>
        /\ requests = Len(pages) + 1)

C2_Witness ==
    /\ pc = "returned"
    /\ outcome = "denied"
    /\ Len(pages) >= 1
    /\ project_issues # <<>>

\* C3: when a page request fails with a non-authorization error the
\* paginator returns exactly the issues of the pages received before, in
\* fetch order, and that request was the last of the call.
C3_ErrorKeepsPartial ==
    outcome = "error"
    => (/\ pc # "paginate"
        /\ issues = Flatten(pages)
        /\ requests = Len(pages) + 1)

C3_Witness ==
    /\ pc = "returned"
    /\ outcome = "error"
    /\ Len(pages) >= 2
    /\ Len(issues) > Len(pages[1])

\* C4: when the first page of a project holds no issue the paginator
\* returns the empty list after exactly one request.
C4_EmptyFirstPage ==
    (Len(pages) >= 1 /\ pages[1] = <<>>)
    => (/\ pc # "paginate"
        /\ outcome = "exhausted"
        /\ issues = <<>>
        /\ requests = 1)

C4_Witness ==
    /\ pc = "returned"
    /\ pages = << <<>> >>
    /\ requests = 1
    /\ issues = <<>>

\* C5: the paginator terminates whatever the server answers: every request
\* either ends the call or adds at least one issue, no call issues more
\* than SAFETY_LIMIT requests, and every call that started returns.
C5_Terminates ==
    /\ [](requests <= SAFETY_LIMIT)
    /\ [][(pc = "paginate" /\ requests' = requests + 1)
           => (pc' # "paginate" \/ Len(project_issues') > Len(project_issues))]_vars
    /\ ((pc = "paginate") ~> (pc = "returned"))

C5_Witness ==
    /\ pc = "returned"
    /\ outcome = "cap"
    /\ ~honest
    /\ requests = SAFETY_LIMIT
    /\ Cardinality(Range(issues)) = 1

\* C6 as stated: the accumulator never holds more than SAFETY_LIMIT issues
\* and the cap returns everything accumulated.
C6_NeverAboveCap ==
    /\ Len(project_issues) <= SAFETY_LIMIT
    /\ outcome = "cap" => issues = project_issues

\* C6 amended: the accumulator never holds more than SAFETY_LIMIT +
\* max_results - 1 issues; when the cap ends the call at least SAFETY_LIMIT
\* issues were accumulated and all of them are returned.
C6_AtMostOnePageAboveCap ==
    /\ Len(project_issues) <= SAFETY_LIMIT + max_results - 1
    /\ outcome = "cap" => (/\ issues = project_issues
                           /\ issues = Flatten(pages)
                           /\ Len(issues) >= SAFETY_LIMIT)

C6_Witness ==
    /\ pc = "returned"
    /\ outcome = "cap"
    /\ \A k \in 1..Len(pages) : Len(pages[k]) \in 1..max_results
    /\ Len(issues) = SAFETY_LIMIT + max_results - 1

\* C7: when issues are created during the pagination, each with an id above
\* every earlier id, a clean call over a project that had fewer than
\* SAFETY_LIMIT matching issues at its first request returns no id twice
\* and returns every issue that existed at the first request.
C7_StableUnderInserts ==
    (/\ pc = "returned"
     /\ EndedCleanly
     /\ honest
     /\ Cardinality(snapshot) < SAFETY_LIMIT)
    => (/\ NoIdTwice(issues)
        /\ snapshot \subseteq IdsOf(issues))

C7_Witness ==
    /\ pc = "returned"
    /\ outcome = "exhausted"
    /\ honest
    /\ createdInCall
    /\ Len(pages) >= 3
    /\ \E x \in ProjectMatches(proj_key) : x.id \notin snapshot
    /\ snapshot = IdsOf(issues)

\* C8: no failure inside a pagination leaves the paginator; the paginator
\* is called once per catalog entry, in catalog order, and the report or
\* no-data decision is taken only after the last entry was processed.
SweepOver == pc \in {"decide", "done", "nodata"}

C8_SweepCompletes ==
    /\ pc # "crashed"
    /\ Len(calls) <= Len(projects_list)
    /\ \A k \in 1..Len(calls) : calls[k].key = projects_list[k]
    /\ pc \in {"sweep", "paginate", "returned"} => Len(calls) = idx - 1
    /\ (SweepOver \/ reports # <<>>) => Len(calls) = Len(projects_list)

C8_Witness ==
    /\ pc = "done"
    /\ Len(projects_list) = 2
    /\ calls[1].outcome = "error"
    /\ calls[1].requests >= 2
    /\ calls[2].outcome = "exhausted"
    /\ calls[2].returned # <<>>

\* C9: master_list only ever grows at its end, and it always equals the
\* concatenation, in catalog order, of the lists the paginator returned.
IsPrefix(s, t) == Len(s) <= Len(t) /\ SubSeq(t, 1, Len(s)) = s

ReturnedLists == [k \in 1..Len(calls) |-> calls[k].returned]

C9_AppendOnlyAggregate ==
    /\ [](master_list = Flatten(ReturnedLists))
    /\ [][IsPrefix(master_list, master_list')]_vars

C9_Witness ==
    /\ pc = "done"
    /\ Len(calls) = 2
    /\ calls[1].returned # <<>>
    /\ calls[2].outcome \in {"denied", "error"}
    /\ calls[2].requests >= 2
    /\ master_list = calls[1].returned \o calls[2].returned

\* C10: when every call ended on an empty page against a faithful server
\* and no issue was created, the ids of master_list are exactly the ids of
\* the whitelisted issues of the catalog's projects, and with distinct
\* catalog keys no id occurs twice.
AccessibleIds ==
    {x.id : x \in {y \in db : y.project \in Range(projects_list) /\ y.issuetype \in Whitelist}}

DistinctKeys == \A j, k \in 1..Len(projects_list) : j # k => projects_list[j] # projects_list[k]

PastDiscovery == pc \notin {"validate", "discover", "exit_fail"}

C11_EmptyCatalogEndsRun ==
    /\ catalogFailed => (projects_list = <<>> /\ pc = "exit_nodata")
    /\ (PastDiscovery /\ projects_list = <<>>)
       => (/\ pc = "exit_nodata"
           /\ catalogRequests = 1
           /\ searchRequests = 0
           /\ calls = <<>>
           /\ reports = <<>>)

C11_Witness ==
    /\ catalogFailed
    /\ catalog # <<>>
    /\ db # {}
    /\ pc = "exit_nodata"

\* C15: when JIRA_EMAIL or JIRA_API_TOKEN is unset or empty the script
\* ends with the failure exit before any request is sent and without a
\* report.
CredentialsMissing ==
    JIRA_EMAIL \in {"unset", ""} \/ JIRA_API_TOKEN \in {"unset", ""}

C15_NoCredentialsNoNetwork ==
    CredentialsMissing
    => (/\ pc \in {"validate", "exit_fail"}
        /\ catalogRequests = 0
        /\ searchRequests = 0
        /\ calls = <<>>
        /\ reports = <<>>)

C15_Witness ==
    /\ pc = "exit_fail"
    /\ JIRA_EMAIL = "set"
    /\ JIRA_API_TOKEN = ""

\* C16: the first request of every call carries no id constraint, every
\* later request carries the id of the last issue of the page received just
\* before it, and the cursor changes only when a call starts (back to none)
\* or a non-empty page is appended.
CursorFollowsPages ==
    /\ Len(constraints) = requests
    /\ requests >= 1 => constraints[1] = None
    /\ \A k \in 2..Len(constraints) :
          /\ Len(pages) >= k - 1
          /\ pages[k - 1] # <<>>
          /\ constraints[k] = pages[k - 1][Len(pages[k - 1])].id

C16_CursorProtocol ==
    /\ []CursorFollowsPages
    /\ [][last_seen_id' # last_seen_id
           => \/ pc = "sweep" /\ last_seen_id' = None
              \/ /\ pc = "paginate"
                 /\ Len(pages') = Len(pages) + 1
                 /\ pages'[Len(pages')] # <<>>
                 /\ project_issues' = project_issues \o pages'[Len(pages')]
                 /\ last_seen_id' = pages'[Len(pages')][Len(pages'[Len(pages')])].id]_vars

C16_Witness ==
    /\ idx = 2
    /\ calls[1].returned # <<>>
    /\ requests >= 3
    /\ constraints[1] = None
    /\ constraints[2] # None
    /\ constraints[3] < constraints[2]

\* C17: to the sweep a denied project and a project whose first page is
\* empty look the same: the returned list is empty, the same line is
\* printed, master_list is left as it was, and so the report decision that
\* follows is the same.
AggregateAfter(k) == IF k < Len(calls) THEN calls[k + 1].before ELSE master_list

Observation(k) ==
    [returned |-> calls[k].returned,
     narrative |-> calls[k].narrative,
     aggregate |-> AggregateAfter(k)]

Denied(k) == calls[k].outcome = "denied"

EmptyFirstPage(k) == calls[k].outcome = "exhausted" /\ calls[k].requests = 1

C17_DeniedLooksEmpty ==
    \A k \in 1..Len(calls) :
        (Denied(k) \/ EmptyFirstPage(k))
        => Observation(k) = [returned |-> <<>>,
                             narrative |-> "Empty or Access Denied",
                             aggregate |-> calls[k].before]

C17_Witness ==
    /\ pc = "done"
    /\ Len(calls) = 2
    /\ calls[1].returned # <<>>
    /\ Denied(2)
    /\ calls[2].requests >= 2

\* C18: a call served without error in full pages, nothing being created
\* meanwhile, issues ceil(N / max_results) + 1 requests when the project has
\* N < SAFETY_LIMIT matching issues and ceil(SAFETY_LIMIT / max_results)
\* requests (500 for 50000 and 100) when it has SAFETY_LIMIT or more.
Ceil(a, b) == (a + b - 1) \div b

FullPages ==
    LET N == Cardinality(ProjectMatches(proj_key))
    IN  \A k \in 1..Len(pages) :
            Len(pages[k]) = Min(max_results, N - Len(Flatten(SubSeq(pages, 1, k - 1))))

C18_RequestCount ==
    (/\ pc = "returned"
     /\ EndedCleanly
     /\ honest
     /\ ~createdInCall
     /\ FullPages)
    => LET N == Cardinality(ProjectMatches(proj_key))
       IN  requests = IF N < SAFETY_LIMIT
                      THEN Ceil(N, max_results) + 1
                      ELSE Ceil(SAFETY_LIMIT, max_results)

C18_Witness ==
    /\ pc = "returned"
    /\ outcome = "cap"
    /\ honest
    /\ ~createdInCall
    /\ FullPages
    /\ Cardinality(ProjectMatches(proj_key)) >= SAFETY_LIMIT
    /\ requests = Ceil(SAFETY_LIMIT, max_results)

\* C19: when the last issue of a received page has no id the page is
\* already in the accumulator: the call returns the issues of all pages
\* received, that page included, and sends no further request.
C19_PageKeptOnCursorFailure ==
    outcome = "noid"
    => (/\ pc # "paginate"
        /\ requests = Len(pages)
        /\ pages[Len(pages)] # <<>>
        /\ issues = Flatten(pages)
        /\ issues[Len(issues)].id = None)

C19_Witness ==
    /\ pc = "returned"
    /\ outcome = "noid"
    /\ Len(pages) >= 2
    /\ Len(issues) > Len(pages[Len(pages)])

\* line 275: the rows of the report, once the row loop is through
rows == Rows(master_list)

\* the script has ended after the sweep, with or without a report
RunOver == pc \in {"done", "nodata", "report_raised"}

\* C12: the report sink is invoked exactly when the aggregate is not empty
\* after all projects were processed, and it then receives one row per
\* aggregated issue, in aggregate order, as many rows as the paginator
\* returned issues over all its calls.
C12_SinkGetsEveryIssue ==
    RunOver
    => (/\ Len(calls) = Len(projects_list)
        /\ sink = (IF master_list # <<>> THEN 1 ELSE 0)
        /\ sink = 1
           => (/\ Len(rows) = Len(Flatten(ReturnedLists))
               /\ \A k \in 1..Len(master_list) : rows[k].Key = master_list[k].key))

\* the defaults documented for a field that is absent or null
DocumentedDefaults(field) ==
    CASE field = "project" -> [ProjectKey |-> "N/A"]
      [] field = "issuetype" -> [IssueType |-> "N/A (Corrupt)"]
      [] field = "status" -> [Status |-> "N/A"]
      [] field = "reporter" -> [ReporterName |-> "Unknown", ReporterAccountID |-> "N/A"]
      [] field = "assignee" -> [AssigneeName |-> "Unassigned", AssigneeAccountID |-> "N/A"]
      [] field = "priority" -> [Priority |-> "Normal"]
      [] field = "resolution" -> [Resolution |-> "Unresolved"]
      [] field = "components" -> [Components |-> ""]
      [] field = "fixVersions" -> [FixVersions |-> ""]
      [] field = "labels" -> [Labels |-> ""]
      [] field = "issuelinks" -> [LinkedIssues |-> ""]
      [] field = "created" -> [CreationDate |-> "N/A", CreationMonth |-> "N/A",
                               CreationYear |-> "N/A"]
      [] field = "updated" -> [Updated |-> "N/A"]
      [] field = "summary" -> [Summary |-> "No Summary"]
      [] field = "timeoriginalestimate" -> [OriginalEstimate |-> "0"]

\* C13: a field that is absent, null or malformed never aborts a row: the
\* row loop raises nothing, and the row of an issue whose field is absent or
\* null holds the documented default in the cells derived from that field.
C13_FieldFailuresNeverAbort ==
    /\ pc # "report_raised"
    /\ pc = "done"
       => \A k \in 1..Len(master_list) :
             (master_list[k].id \in shaped /\ shape.value.is \in {"absent", "null"})
             => \A c \in DOMAIN DocumentedDefaults(shape.field) :
                   rows[k][c] = DocumentedDefaults(shape.field)[c]

\* a key of a user object that is present and not empty
Filled(person, k) == person.is = "obj" /\ person[k] \notin {Absent, Null, ""}

\* C14: in every row written, the Name of reporter and assignee is the
\* displayName when present and non-empty, else the accountId when present
\* and non-empty, else "Unknown" (reporter) or "Unassigned" (assignee); the
\* AccountID is the accountId when present and non-empty, else "N/A".
ChainedName(person, last) ==
    IF Filled(person, "a") THEN person.a
    ELSE IF Filled(person, "b") THEN person.b ELSE last

ChainedAccount(person) == IF Filled(person, "b") THEN person.b ELSE "N/A"

C14_FallbackChain ==
    sink = 1 => \A k \in 1..Len(rows) :
        LET fields == Raw(master_list[k])
            row == rows[k]
        IN  /\ row.ReporterName = ChainedName(fields.reporter, "Unknown")
            /\ row.ReporterAccountID = ChainedAccount(fields.reporter)
            /\ row.AssigneeName = ChainedName(fields.assignee, "Unassigned")
            /\ row.AssigneeAccountID = ChainedAccount(fields.assignee)

C14_Witness ==
    /\ pc = "done"
    /\ shape.field = "reporter"
    /\ shape.value \in {NoField, NullField}
    /\ \E k \in 1..Len(master_list) :
          /\ master_list[k].id \in shaped
          /\ rows[k].ReporterName = "Unknown"
          /\ rows[k].ReporterAccountID = "N/A"

TypeOK == pc \in {"validate", "discover", "sweep", "paginate", "returned", "decide",
                  "done", "nodata", "exit_fail", "exit_nodata", "crashed",
                  "report_raised"}

====
